---- MODULE Spec2Model ----
(***************************************************************************)
(* Model of src/bundle/osx_bundle.rs of cargo-bundle: bundle_project and   *)
(* the icon pipeline of create_icns_file.                                   *)
(*                                                                          *)
(* An Option<T> is a sequence: <<>> is None and <<x>> is Some(x).           *)
(* A path is a record [dir, name]: dir is the sequence of directory         *)
(* components and name the file name.                                       *)
(***************************************************************************)
EXTENDS Integers, Sequences, FiniteSets, TLC

\* Bounds of the model: lengths of the two input lists of Settings.
MaxIcons == 2
MaxResources == 2

NoneOpt == <<>>
Some(x) == <<x>>

\* Settings::bundle_name() and Settings::binary_name() of one project.
bundle_name == "foobar"
binary_name == "foobar-bin"

\* format!("{}.app", settings.bundle_name())
app_bundle_name == "foobar.app"

\* bundle_directory = app_bundle_path.join("Contents"); paths are kept
\* relative to app_bundle_path.
bundle_directory == <<"Contents">>

\* resources_dir = bundle_directory.join("Resources")
resources_dir == Append(bundle_directory, "Resources")

\* dest_dir of copy_binary_to_bundle
macos_dir == Append(bundle_directory, "MacOS")

Path(d, n) == [dir |-> d, name |-> n]

\* Path::file_name(): the last component of a path.
file_name(p) == p.name

\* dest_path.push(settings.bundle_name()); dest_path.set_extension("icns")
icns_dest_path == Path(resources_dir, "foobar.icns")

(***************************************************************************)
(* Inputs.  An icon candidate is one item of settings.icon_files():        *)
(* pathOk is FALSE when the iterator yields Err; ext is                     *)
(* Path::extension(); decodes tells whether image::open succeeds and       *)
(* w, h, color are then the decoded image's dimensions and color type;     *)
(* retina is the answer of common::is_retina.                               *)
(***************************************************************************)
IconFile(pathOk, name, ext, decodes, w, h, color, retina) ==
    [pathOk |-> pathOk, name |-> name, ext |-> ext, decodes |-> decodes,
     w |-> w, h |-> h, color |-> color, retina |-> retina]

IconPool ==
    { IconFile(TRUE,  "a.icns",      "icns", FALSE, 1,  1,  "RGBA8",  FALSE),
      IconFile(TRUE,  "b.icns",      "icns", FALSE, 1,  1,  "RGBA8",  FALSE),
      IconFile(TRUE,  "i16.png",     "png",  TRUE,  16, 16, "RGBA8",  FALSE),
      IconFile(TRUE,  "i20.png",     "png",  TRUE,  20, 20, "RGB8",   FALSE),
      IconFile(TRUE,  "i32.png",     "png",  TRUE,  32, 32, "Gray8",  FALSE),
      IconFile(TRUE,  "i32@2x.png",  "png",  TRUE,  32, 32, "RGBA8",  TRUE),
      IconFile(TRUE,  "i32x48.png",  "png",  TRUE,  32, 48, "RGBA8",  FALSE),
      IconFile(TRUE,  "i40x33.png",  "png",  TRUE,  40, 33, "GrayA8", FALSE),
      IconFile(TRUE,  "i48.png",     "png",  TRUE,  48, 48, "RGBA8",  FALSE),
      IconFile(TRUE,  "i8.png",      "png",  TRUE,  8,  8,  "RGBA8",  FALSE),
      IconFile(TRUE,  "deep32.png",  "png",  TRUE,  32, 32, "RGB16",  FALSE),
      IconFile(TRUE,  "corrupt.png", "png",  FALSE, 1,  1,  "RGBA8",  FALSE),
      IconFile(FALSE, "",            "",     FALSE, 1,  1,  "RGBA8",  FALSE) }

\* One item of settings.resource_files(); relpath is
\* common::resource_relpath(&src).
ResourcePool ==
    { [pathOk |-> TRUE,  relpath |-> "data.txt"],
      [pathOk |-> FALSE, relpath |-> ""] }

SeqsUpTo(S, n) == UNION { [1..k -> S] : k \in 0..n }

\* A bundle tree left at app_bundle_path by an earlier run.
OldTree ==
    { [path |-> Path(bundle_directory, "Info.plist"), origin |-> "old"],
      [path |-> Path(resources_dir, "stale.dat"),     origin |-> "old"],
      [path |-> Path(resources_dir, "foobar.icns"),   origin |-> "old"] }

(***************************************************************************)
(* Pure functions of the icon pipeline.                                     *)
(***************************************************************************)

\* icns::IconType::from_pixel_size_and_density(width, height, density):
\* the size/density table of the icns crate the source calls at line 156.
\* The crate is a dependency, not a file of this repository; the table is
\* the one its documentation gives (pixel size, so a 2x type of 16x16
\* points is 32x32 pixels).
from_pixel_size_and_density(width, height, density) ==
    CASE width = 16   /\ height = 12   /\ density = 1 -> Some("RGB24_16x12")
      [] width = 16   /\ height = 16   /\ density = 1 -> Some("RGB24_16x16")
      [] width = 32   /\ height = 32   /\ density = 1 -> Some("RGB24_32x32")
      [] width = 32   /\ height = 32   /\ density = 2 -> Some("RGBA32_16x16_2x")
      [] width = 48   /\ height = 48   /\ density = 1 -> Some("RGB24_48x48")
      [] width = 64   /\ height = 64   /\ density = 1 -> Some("RGBA32_64x64")
      [] width = 64   /\ height = 64   /\ density = 2 -> Some("RGBA32_32x32_2x")
      [] width = 128  /\ height = 128  /\ density = 1 -> Some("RGB24_128x128")
      [] width = 256  /\ height = 256  /\ density = 1 -> Some("RGBA32_256x256")
      [] width = 256  /\ height = 256  /\ density = 2 -> Some("RGBA32_128x128_2x")
      [] width = 512  /\ height = 512  /\ density = 1 -> Some("RGBA32_512x512")
      [] width = 512  /\ height = 512  /\ density = 2 -> Some("RGBA32_256x256_2x")
      [] width = 1024 /\ height = 1024 /\ density = 2 -> Some("RGBA32_512x512_2x")
      [] OTHER -> NoneOpt

min(a, b) == IF a < b THEN a ELSE b

RECURSIVE Log2Floor(_)
\* (orig_size as f32).log2().floor(), exact for the sizes of IconPool
Log2Floor(n) == IF n < 2 THEN 0 ELSE 1 + Log2Floor(n \div 2)

next_size_down_ceil(orig_size) == 2 ^ (Log2Floor(orig_size) + 1)

\* let next_size_down = 2f32.powf((orig_size as f32).log2().floor()) as u32
next_size_down(orig_size) == 2 ^ Log2Floor(orig_size)

\* let density = if common::is_retina(&icon_path) { 2 } else { 1 }
density_of(c) == IF c.retina THEN 2 ELSE 1

ext_never_icns(c) == FALSE

\* icon_path.extension() == Some(OsStr::new("icns"))
is_icns(c) == c.ext = "icns"

\* The match of make_icns_image: Ok for the four 8-bit color types.
make_icns_image_ok(icon) == icon.color \in {"RGBA8", "RGB8", "GrayA8", "Gray8"}

has_icon_never(fam, icon_type) == FALSE

\* icns::IconFamily::has_icon_with_type
has_icon_with_type(fam, icon_type) ==
    \E k \in 1..Len(fam) : fam[k].icon_type = icon_type

\* icns::IconFamily::add_icon_with_type appends an element.
add_icon_with_type(fam, icon, icon_type) ==
    Append(fam, [icon_type |-> icon_type, owner |-> icon.owner,
                 w |-> icon.w, h |-> icon.h])

ReplaceIcon(fam, icon, icon_type) ==
    add_icon_with_type(SelectSeq(fam, LAMBDA e : e.icon_type # icon_type),
                       icon, icon_type)

add_icon_last_wins(icon, density, fam) ==
    LET t == from_pixel_size_and_density(icon.w, icon.h, density) IN
    IF t # NoneOpt
    THEN IF make_icns_image_ok(icon)
         THEN [err |-> "", family |-> ReplaceIcon(fam, icon, t[1])]
         ELSE [err |-> "color", family |-> fam]
    ELSE [err |-> "noslot", family |-> fam]

\* fn add_icon_to_family(icon, density, family) -> io::Result<()>:
\* err is "" for Ok(()), else the cause of the Err.
add_icon_to_family(icon, density, fam) ==
    LET t == from_pixel_size_and_density(icon.w, icon.h, density) IN
    IF t # NoneOpt
    THEN IF ~has_icon_with_type(fam, t[1])
         THEN IF make_icns_image_ok(icon)
              THEN [err |-> "", family |-> add_icon_with_type(fam, icon, t[1])]
              ELSE [err |-> "color", family |-> fam]
         ELSE [err |-> "", family |-> fam]
    ELSE [err |-> "noslot", family |-> fam]

\* icon.resize_exact(next_size_down, next_size_down, image::Lanczos3)
resize_exact(icon, nw, nh) == [icon EXCEPT !.w = nw, !.h = nh]

plist_never_icon(icon_file, copyright_string) ==
    <<[key |-> "CFBundleDisplayName", value |-> bundle_name],
      [key |-> "CFBundleExecutable", value |-> binary_name]>>

\* The key/value pairs create_info_plist writes, in order (the keys with
\* fixed values after CFBundleIdentifier are summarised by the last fixed
\* one, CFBundleVersion).
plist_entries(icon_file, copyright_string) ==
    <<[key |-> "CFBundleDisplayName", value |-> bundle_name],
      [key |-> "CFBundleExecutable", value |-> binary_name]>>
    \o (IF icon_file # NoneOpt
        THEN <<[key |-> "CFBundleIconFile", value |-> file_name(icon_file[1])]>>
        ELSE <<>>)
    \o <<[key |-> "CFBundleIdentifier", value |-> "id"],
         [key |-> "CFBundleName", value |-> bundle_name],
         [key |-> "CFBundleVersion", value |-> "version"]>>
    \o (IF copyright_string # NoneOpt
        THEN <<[key |-> "NSHumanReadableCopyright", value |-> copyright_string[1]]>>
        ELSE <<>>)

\* A file written by this run replaces whatever was at its path.
WriteFile(t, p) ==
    { f \in t : f.path # p } \cup { [path |-> p, origin |-> "new"] }

(***************************************************************************)
(* State.                                                                   *)
(***************************************************************************)
VARIABLES
    icon_files,        \* settings.icon_files(), in input order
    resource_files,    \* settings.resource_files(), in input order
    old_tree,          \* the files under app_bundle_path when the run starts
    copyright_string,  \* settings.copyright_string()
    tree,              \* the files under app_bundle_path
    pc,                \* position of bundle_project / create_icns_file
    idx,               \* index of the current loop
    family,            \* icns::IconFamily of create_icns_file
    images_to_resize,  \* Vec<(DynamicImage, u32, u32)> of create_icns_file
    bundle_icon_file,  \* Option<PathBuf> returned by create_icns_file
    plist,             \* Option of the entries written to Info.plist
    events,            \* what was done to which candidate, in order
    steps,             \* the steps of bundle_project that have succeeded
    failure,           \* Option of the step and cause of the Err
    result             \* "running", "Ok" (vec![app_bundle_path]) or "Err"

vars == <<icon_files, resource_files, old_tree, copyright_string, tree, pc, idx, family,
          images_to_resize, bundle_icon_file, plist, events, steps, failure,
          result>>

inputs == <<icon_files, resource_files, old_tree, copyright_string>>
icon_state == <<family, images_to_resize, events>>

Init ==
    /\ icon_files \in SeqsUpTo(IconPool, MaxIcons)
    /\ resource_files \in SeqsUpTo(ResourcePool, MaxResources)
    /\ copyright_string \in {NoneOpt, Some("(c) foobar")}
    /\ old_tree \in {{}, OldTree}
    /\ tree = old_tree
    /\ pc = "print"
    /\ idx = 1
    /\ family = <<>>
    /\ images_to_resize = <<>>
    /\ bundle_icon_file = NoneOpt
    /\ plist = NoneOpt
    /\ events = <<>>
    /\ steps = <<>>
    /\ failure = NoneOpt
    /\ result = "running"

\* An Err leaving bundle_project through `?` at step `at`.
Fail(at, cause) ==
    /\ pc' = "failed"
    /\ failure' = Some([at |-> at, cause |-> cause])
    /\ result' = "Err"

Event(cand, op, w, h, slot) ==
    [cand |-> cand, op |-> op, w |-> w, h |-> h, slot |-> slot]

\* common::print_bundling(&app_bundle_name)?
PrintBundling ==
    /\ pc = "print"
    /\ \E ok \in BOOLEAN :
         IF ok
         THEN /\ pc' = "remove_old"
              /\ steps' = Append(steps, "print")
              /\ UNCHANGED <<failure, result>>
         ELSE /\ Fail("print", "io")
              /\ UNCHANGED steps
    /\ UNCHANGED <<inputs, tree, idx, icon_state, bundle_icon_file, plist>>

RemoveOldSkipped ==
    /\ pc = "remove_old"
    /\ pc' = "create_dir"
    /\ steps' = Append(steps, "remove")
    /\ UNCHANGED <<inputs, tree, idx, icon_state, bundle_icon_file, plist,
                   failure, result>>

\* if app_bundle_path.exists() { fs::remove_dir_all(&app_bundle_path)...? }
\* A failing remove_dir_all may have removed part of the tree.
RemoveOld ==
    /\ pc = "remove_old"
    /\ IF tree # {}
       THEN \/ /\ tree' = {}
               /\ pc' = "create_dir"
               /\ steps' = Append(steps, "remove")
               /\ UNCHANGED <<failure, result>>
            \/ /\ \E rest \in (SUBSET tree) \ {{}} : tree' = rest
               /\ Fail("remove", "io")
               /\ UNCHANGED steps
       ELSE /\ pc' = "create_dir"
            /\ steps' = Append(steps, "remove")
            /\ UNCHANGED <<tree, failure, result>>
    /\ UNCHANGED <<inputs, idx, icon_state, bundle_icon_file, plist>>

\* fs::create_dir_all(&bundle_directory)...?
CreateBundleDir ==
    /\ pc = "create_dir"
    /\ \E ok \in BOOLEAN :
         IF ok
         THEN /\ pc' = "icns_count"
              /\ steps' = Append(steps, "mkdir")
              /\ UNCHANGED <<failure, result>>
         ELSE /\ Fail("mkdir", "io")
              /\ UNCHANGED steps
    /\ UNCHANGED <<inputs, tree, idx, icon_state, bundle_icon_file, plist>>

\* create_icns_file returns Ok(icon) to bundle_project.
IconOk(icon) ==
    /\ bundle_icon_file' = icon
    /\ pc' = "info_plist"
    /\ idx' = 1
    /\ steps' = Append(steps, "icon")
    /\ UNCHANGED <<failure, result>>

\* create_icns_file returns Err; bundle_project returns it chained.
IconErr(cause) ==
    /\ Fail("icon", cause)
    /\ UNCHANGED <<bundle_icon_file, steps>>

\* if settings.icon_files().count() == 0 { return Ok(None); }
IcnsCount ==
    /\ pc = "icns_count"
    /\ IF Len(icon_files) = 0
       THEN IconOk(NoneOpt)
       ELSE /\ pc' = "icns_scan"
            /\ idx' = 1
            /\ UNCHANGED <<bundle_icon_file, steps, failure, result>>
    /\ UNCHANGED <<inputs, tree, icon_state, plist>>

\* One iteration of the loop that looks for an ICNS file among icon_files.
IcnsScan ==
    /\ pc = "icns_scan"
    /\ idx <= Len(icon_files)
    /\ LET icon_path == icon_files[idx] IN
       IF ~icon_path.pathOk
       THEN /\ IconErr("path")
            /\ UNCHANGED <<tree, idx>>
       ELSE IF is_icns(icon_path)
       THEN LET dest_path == Path(resources_dir, icon_path.name) IN
            \E ok \in BOOLEAN :
              IF ok
              THEN /\ tree' = WriteFile(tree, dest_path)
                   /\ IconOk(Some(dest_path))
              ELSE /\ IconErr("copy")
                   /\ UNCHANGED <<tree, idx>>
       ELSE /\ idx' = IF idx = Len(icon_files) THEN 1 ELSE idx + 1
            /\ pc' = IF idx = Len(icon_files) THEN "icns_open" ELSE "icns_scan"
            /\ UNCHANGED <<tree, bundle_icon_file, steps, failure, result>>
    /\ UNCHANGED <<inputs, icon_state, plist>>

\* Where create_icns_file goes after the loop over icon_files.
AfterOpen(to_resize) ==
    IF to_resize = <<>> THEN "icns_write" ELSE "icns_resize"

\* One iteration of the loop that opens each icon file and either adds it to
\* the family or defers it to images_to_resize.
IcnsOpen ==
    /\ pc = "icns_open"
    /\ idx <= Len(icon_files)
    /\ LET icon_path == icon_files[idx]
           last == idx = Len(icon_files)
       IN
       IF ~icon_path.pathOk
       THEN /\ IconErr("path")
            /\ UNCHANGED <<idx, icon_state>>
       ELSE IF ~icon_path.decodes
       THEN /\ IconErr("decode")
            /\ events' = Append(events, Event(idx, "open", 0, 0, NoneOpt))
            /\ UNCHANGED <<idx, family, images_to_resize>>
       ELSE
         LET icon == [owner |-> idx, w |-> icon_path.w, h |-> icon_path.h,
                      color |-> icon_path.color]
             density == density_of(icon_path)
             orig_size == min(icon.w, icon.h)
             nsd == next_size_down(orig_size)
             opened == Append(events, Event(idx, "open", icon.w, icon.h, NoneOpt))
         IN
         IF orig_size > nsd
         THEN /\ images_to_resize' =
                   Append(images_to_resize,
                          [icon |-> icon, next_size_down |-> nsd,
                           density |-> density])
              /\ events' = opened
              /\ idx' = IF last THEN 1 ELSE idx + 1
              /\ pc' = IF last THEN AfterOpen(images_to_resize') ELSE "icns_open"
              /\ UNCHANGED <<family, bundle_icon_file, steps, failure, result>>
         ELSE
           LET r == add_icon_to_family(icon, density, family) IN
           /\ events' = Append(opened,
                   Event(idx, "classify", icon.w, icon.h,
                         from_pixel_size_and_density(icon.w, icon.h, density)))
           /\ family' = r.family
           /\ IF r.err = ""
              THEN /\ idx' = IF last THEN 1 ELSE idx + 1
                   /\ pc' = IF last THEN AfterOpen(images_to_resize)
                                    ELSE "icns_open"
                   /\ UNCHANGED <<images_to_resize, bundle_icon_file, steps,
                                  failure, result>>
              ELSE /\ IconErr(r.err)
                   /\ UNCHANGED <<idx, images_to_resize>>
    /\ UNCHANGED <<inputs, tree, plist>>

\* One iteration of the loop over images_to_resize.
IcnsResize ==
    /\ pc = "icns_resize"
    /\ idx <= Len(images_to_resize)
    /\ LET e == images_to_resize[idx]
           icon == resize_exact(e.icon, e.next_size_down, e.next_size_down)
           r == add_icon_to_family(icon, e.density, family)
           last == idx = Len(images_to_resize)
       IN
       /\ events' = events \o
              << Event(icon.owner, "resize", icon.w, icon.h, NoneOpt),
                 Event(icon.owner, "classify", icon.w, icon.h,
                       from_pixel_size_and_density(icon.w, icon.h, e.density)) >>
       /\ family' = r.family
       /\ IF r.err = ""
          THEN /\ idx' = IF last THEN 1 ELSE idx + 1
               /\ pc' = IF last THEN "icns_write" ELSE "icns_resize"
               /\ UNCHANGED <<bundle_icon_file, steps, failure, result>>
          ELSE /\ IconErr(r.err)
               /\ UNCHANGED idx
    /\ UNCHANGED <<inputs, tree, images_to_resize, plist>>

\* if !family.is_empty() { create_dir_all; File::create; family.write;
\* return Ok(Some(dest_path)) }  bail!("No usable icon files found.")
\* A failing family.write leaves the file it created.
IcnsWrite ==
    /\ pc = "icns_write"
    /\ IF family # <<>>
       THEN \E outcome \in {"ok", "mkdir", "create", "write"} :
              CASE outcome = "ok" ->
                     /\ tree' = WriteFile(tree, icns_dest_path)
                     /\ IconOk(Some(icns_dest_path))
                [] outcome = "write" ->
                     /\ tree' = WriteFile(tree, icns_dest_path)
                     /\ IconErr("io")
                     /\ UNCHANGED idx
                [] OTHER ->
                     /\ IconErr("io")
                     /\ UNCHANGED <<tree, idx>>
       ELSE /\ IconErr("nousable")
            /\ UNCHANGED <<tree, idx>>
    /\ UNCHANGED <<inputs, icon_state, plist>>

\* create_info_plist(&bundle_directory, bundle_icon_file, settings)...?
\* A failing write! leaves a file holding a prefix of the entries.
CreateInfoPlist ==
    /\ pc = "info_plist"
    /\ LET entries == plist_entries(bundle_icon_file, copyright_string)
           info == Path(bundle_directory, "Info.plist")
       IN
       \/ /\ tree' = WriteFile(tree, info)
          /\ plist' = Some(entries)
          /\ pc' = IF resource_files = <<>> THEN "binary" ELSE "resources"
          /\ steps' = Append(steps, "plist")
          /\ UNCHANGED <<failure, result>>
       \/ /\ Fail("plist", "io")
          /\ UNCHANGED <<tree, plist, steps>>
       \/ /\ \E k \in 0..(Len(entries) - 1) :
               plist' = Some(SubSeq(entries, 1, k))
          /\ tree' = WriteFile(tree, info)
          /\ Fail("plist", "io")
          /\ UNCHANGED steps
    /\ UNCHANGED <<inputs, idx, icon_state, bundle_icon_file>>

CopyResourceIgnoringErrors ==
    /\ pc = "resources"
    /\ idx <= Len(resource_files)
    /\ \E ok \in BOOLEAN :
         tree' = IF ok /\ resource_files[idx].pathOk
                 THEN WriteFile(tree, Path(resources_dir, resource_files[idx].relpath))
                 ELSE tree
    /\ idx' = IF idx = Len(resource_files) THEN 1 ELSE idx + 1
    /\ pc' = IF idx = Len(resource_files) THEN "binary" ELSE "resources"
    /\ steps' = Append(steps, "resource")
    /\ UNCHANGED <<inputs, icon_state, bundle_icon_file, plist, failure, result>>

\* One iteration of the loop over settings.resource_files().
CopyResource ==
    /\ pc = "resources"
    /\ idx <= Len(resource_files)
    /\ LET src == resource_files[idx]
           last == idx = Len(resource_files)
       IN
       IF ~src.pathOk
       THEN /\ Fail("resource", "path")
            /\ UNCHANGED <<tree, idx, steps>>
       ELSE \E ok \in BOOLEAN :
              IF ok
              THEN /\ tree' = WriteFile(tree, Path(resources_dir, src.relpath))
                   /\ idx' = IF last THEN 1 ELSE idx + 1
                   /\ pc' = IF last THEN "binary" ELSE "resources"
                   /\ steps' = Append(steps, "resource")
                   /\ UNCHANGED <<failure, result>>
              ELSE /\ Fail("resource", "copy")
                   /\ UNCHANGED <<tree, idx, steps>>
    /\ UNCHANGED <<inputs, icon_state, bundle_icon_file, plist>>

\* copy_binary_to_bundle(&bundle_directory, settings)...?; Ok(vec![...])
CopyBinary ==
    /\ pc = "binary"
    /\ \E ok \in BOOLEAN :
         IF ok
         THEN /\ tree' = WriteFile(tree, Path(macos_dir, binary_name))
              /\ pc' = "done"
              /\ steps' = Append(steps, "binary")
              /\ result' = "Ok"
              /\ UNCHANGED failure
         ELSE /\ Fail("binary", "copy")
              /\ UNCHANGED <<tree, steps>>
    /\ UNCHANGED <<inputs, idx, icon_state, bundle_icon_file, plist>>

Next ==
    \/ PrintBundling
    \/ RemoveOld
    \/ CreateBundleDir
    \/ IcnsCount
    \/ IcnsScan
    \/ IcnsOpen
    \/ IcnsResize
    \/ IcnsWrite
    \/ CreateInfoPlist
    \/ CopyResource
    \/ CopyBinary

Spec == Init /\ [][Next]_vars

TypeOK ==
    /\ pc \in {"print", "remove_old", "create_dir", "icns_count", "icns_scan",
               "icns_open", "icns_resize", "icns_write", "info_plist",
               "resources", "binary", "done", "failed"}
    /\ result \in {"running", "Ok", "Err"}
    /\ Len(bundle_icon_file) <= 1
    /\ Len(failure) <= 1

(***************************************************************************)
(* Vocabulary of the properties.                                            *)
(***************************************************************************)
Range(q) == { q[k] : k \in 1..Len(q) }

Cands == 1..Len(icon_files)

\* Candidate k carries the .icns extension.
IcnsAt(k) == icon_files[k].pathOk /\ icon_files[k].ext = "icns"
HasIcns == \E k \in Cands : IcnsAt(k)
FirstIcns == CHOOSE k \in Cands : IcnsAt(k) /\ \A j \in 1..(k - 1) : ~IcnsAt(j)

\* Candidate k is a raster image that image::open decodes.
Raster(k) == icon_files[k].pathOk /\ ~IcnsAt(k) /\ icon_files[k].decodes
SquareDim(k) == min(icon_files[k].w, icon_files[k].h)
IsPow2(d) == \E e \in 0..12 : d = 2 ^ e
\* The largest power of two that is at most d.
Pow2Below(d) == CHOOSE p \in 1..d : IsPow2(p) /\ p <= d /\ d < 2 * p

\* The slot candidate k is classified to by the pipeline: at its original
\* width and height, or at target x target when it is resampled.
Resampled(k) == Raster(k) /\ ~IsPow2(SquareDim(k))
Direct(k) == Raster(k) /\ IsPow2(SquareDim(k))
SlotOf(k) ==
    IF Resampled(k)
    THEN from_pixel_size_and_density(Pow2Below(SquareDim(k)),
                                     Pow2Below(SquareDim(k)),
                                     density_of(icon_files[k]))
    ELSE from_pixel_size_and_density(icon_files[k].w, icon_files[k].h,
                                     density_of(icon_files[k]))
ClassifiesTo(k, s) == Raster(k) /\ SlotOf(k) = Some(s)

Least(S) == CHOOSE k \in S : \A j \in S : k <= j

\* Both loops of create_icns_file have run to their end.
AllProcessed == pc = "icns_write"

NewFile(p) == [path |-> p, origin |-> "new"]
EntriesOf(s) == { k \in 1..Len(family) : family[k].icon_type = s }
EventsOf(k, op) == { i \in 1..Len(events) : events[i].cand = k /\ events[i].op = op }
FailedAt(at) == failure # NoneOpt /\ failure[1].at = at
PerCandidateCauses == {"decode", "color", "noslot"}

(***************************************************************************)
(* C1: during icon synthesis a failure confined to one raster candidate    *)
(* (it cannot be decoded, its pixel format is unsupported, or its size     *)
(* maps to no slot) never aborts the run.                                   *)
(***************************************************************************)
C1_CandidateFailureNeverAborts ==
    ~(FailedAt("icon") /\ failure[1].cause \in PerCandidateCauses)

(***************************************************************************)
(* C2, as stated: when all candidates were processed, the entry of a slot  *)
(* comes from the candidate that is earliest in input order among those    *)
(* that classify to the slot, at original size or after resampling.        *)
(***************************************************************************)
C2_EarliestInInputOrderWins ==
    AllProcessed =>
      \A e \in Range(family) :
        e.owner = Least({ k \in Cands : ClassifiesTo(k, e.icon_type) })

(***************************************************************************)
(* C2, amended: a slot never holds two entries; its entry comes from the   *)
(* earliest candidate classified to it at original size if there is one,   *)
(* otherwise from the earliest candidate classified to it after            *)
(* resampling; and once all candidates were processed every slot some      *)
(* candidate classifies to holds exactly one entry.                        *)
(***************************************************************************)
C2_DirectFirstThenInputOrder ==
    /\ \A e \in Range(family) :
         LET direct == { k \in Cands : Direct(k) /\ ClassifiesTo(k, e.icon_type) }
             resampled == { k \in Cands : Resampled(k) /\ ClassifiesTo(k, e.icon_type) }
         IN /\ Cardinality(EntriesOf(e.icon_type)) = 1
            /\ e.owner = IF direct # {} THEN Least(direct) ELSE Least(resampled)
    /\ AllProcessed =>
         \A k \in Cands : Raster(k) /\ SlotOf(k) # NoneOpt =>
           Cardinality(EntriesOf(SlotOf(k)[1])) = 1

\* A resampled candidate precedes a directly classified one of the same
\* slot, and the later one owns the slot.
C2_Witness ==
    /\ AllProcessed
    /\ Len(icon_files) = 2
    /\ Resampled(1) /\ Direct(2)
    /\ SlotOf(1) # NoneOpt /\ SlotOf(1) = SlotOf(2)
    /\ Len(family) = 1 /\ family[1].owner = 2

(***************************************************************************)
(* C3: when candidates are supplied, none is an .icns file and none was    *)
(* inserted into the family, create_icns_file returns Ok(None) and         *)
(* bundle_project goes on.                                                  *)
(***************************************************************************)
C3_NoUsableIconIsNotFatal ==
    ( /\ icon_files # <<>>
      /\ \A k \in Cands : icon_files[k].pathOk /\ ~IcnsAt(k)
      /\ family = <<>>
      /\ "icon" \in Range(steps) \/ FailedAt("icon") )
    => ( "icon" \in Range(steps) /\ bundle_icon_file = NoneOpt )

(***************************************************************************)
(* C4: if some candidate has the .icns extension, no raster candidate is   *)
(* ever decoded, classified, resampled or serialized, and when             *)
(* create_icns_file succeeds its result is the first such candidate,       *)
(* copied into Resources under its own file name.                           *)
(***************************************************************************)
C4_NativeShortCircuit ==
    HasIcns =>
      /\ events = <<>> /\ family = <<>> /\ images_to_resize = <<>>
      /\ NewFile(icns_dest_path) \notin tree
      /\ "icon" \in Range(steps) =>
           /\ bundle_icon_file =
                Some(Path(resources_dir, icon_files[FirstIcns].name))
           /\ NewFile(bundle_icon_file[1]) \in tree

\* A run that ends well with a raster candidate before the .icns one.
C4_Witness ==
    /\ pc = "done"
    /\ Len(icon_files) = 2
    /\ Raster(1) /\ IcnsAt(2)
    /\ NewFile(Path(resources_dir, icon_files[2].name)) \in tree

(***************************************************************************)
(* C5: with zero candidates create_icns_file does not fail, no icon is     *)
(* resolved and a finished bundle has no icon file in Resources; and the   *)
(* written Info.plist has the CFBundleIconFile key exactly when an icon    *)
(* file was resolved, its value being the base name of that file.          *)
(***************************************************************************)
IconPaths ==
    { icns_dest_path } \cup
    { Path(resources_dir, c.name) : c \in { x \in IconPool : x.ext = "icns" } }
IconKeys(entries) ==
    { k \in 1..Len(entries) : entries[k].key = "CFBundleIconFile" }

C5_IconKeyIffIconFile ==
    /\ icon_files = <<>> =>
         /\ ~FailedAt("icon")
         /\ bundle_icon_file = NoneOpt
         /\ pc = "done" => \A f \in tree : f.path \notin IconPaths
    /\ "plist" \in Range(steps) =>
         /\ plist # NoneOpt
         /\ IF bundle_icon_file = NoneOpt
            THEN IconKeys(plist[1]) = {}
            ELSE /\ Cardinality(IconKeys(plist[1])) = 1
                 /\ \A k \in IconKeys(plist[1]) :
                      plist[1][k].value = bundle_icon_file[1].name

\* A finished bundle made from zero candidates over an old tree that held
\* an icon file.
C5_Witness ==
    /\ pc = "done"
    /\ icon_files = <<>>
    /\ old_tree # {}
    /\ plist # NoneOpt

(***************************************************************************)
(* C6: an existing bundle tree is removed in full before any part of the   *)
(* new bundle is created: no file of the old tree is present once this     *)
(* run has written a file, nor after a successful run.                      *)
(***************************************************************************)
C6_NoStaleFiles ==
    /\ (\E f \in tree : f.origin = "new") => \A f \in tree : f.origin = "new"
    /\ "remove" \in Range(steps) => \A f \in tree : f.origin = "new"
    /\ pc = "done" => tree # {} /\ \A f \in tree : f.origin = "new"

\* A successful run over an old tree.
C6_Witness ==
    /\ pc = "done"
    /\ old_tree = OldTree
    /\ NewFile(Path(bundle_directory, "Info.plist")) \in tree

(***************************************************************************)
(* C7: a failing removal, directory creation, resource copy or binary      *)
(* copy makes bundle_project return an error with no later step executed;  *)
(* the bundle path is returned only when every step has succeeded, in the  *)
(* order icon, Info.plist, resources, binary.                               *)
(***************************************************************************)
StepOrder ==
    <<"print", "remove", "mkdir", "icon", "plist">>
    \o [k \in 1..Len(resource_files) |-> "resource"]
    \o <<"binary">>

C7_FailuresAbort ==
    /\ result = "Ok" <=> pc = "done"
    /\ pc = "done" =>
         /\ failure = NoneOpt
         /\ steps = StepOrder
         /\ \A k \in 1..Len(resource_files) :
              /\ resource_files[k].pathOk
              /\ NewFile(Path(resources_dir, resource_files[k].relpath)) \in tree
         /\ NewFile(Path(macos_dir, binary_name)) \in tree
         /\ NewFile(Path(bundle_directory, "Info.plist")) \in tree
    /\ failure # NoneOpt =>
         /\ pc = "failed" /\ result = "Err"
         /\ Len(steps) < Len(StepOrder)
         /\ steps = SubSeq(StepOrder, 1, Len(steps))
         /\ StepOrder[Len(steps) + 1] = failure[1].at

\* The copy of the second of two resource files fails: the run has
\* stopped before the binary.
C7_Witness ==
    /\ pc = "failed"
    /\ FailedAt("resource") /\ failure[1].cause = "copy"
    /\ "resource" \in Range(steps)
    /\ "binary" \notin Range(steps)

C9_ClassifiedByMinEdge ==
    \A i \in 1..Len(events) :
      events[i].op = "classify" =>
        events[i].slot =
          from_pixel_size_and_density(min(events[i].w, events[i].h),
                                      min(events[i].w, events[i].h),
                                      density_of(icon_files[events[i].cand]))

(***************************************************************************)
(* C10: the family never holds two entries of one slot; the synthesized    *)
(* container file is written only when all candidates were processed and   *)
(* the family is non-empty, and a synthesis that returns Ok has written    *)
(* it; an empty family never produces the file.                             *)
(***************************************************************************)
Synthesized == NewFile(icns_dest_path) \in tree

C10_FamilyAndContainer ==
    /\ \A i, j \in 1..Len(family) :
         family[i].icon_type = family[j].icon_type => i = j
    /\ Synthesized =>
         /\ family # <<>>
         /\ pc # "icns_write"
         /\ \A k \in Cands : Raster(k) /\ EventsOf(k, "classify") # {}
    /\ family = <<>> => ~Synthesized /\ bundle_icon_file # Some(icns_dest_path)
    /\ (icon_files # <<>> /\ ~HasIcns /\ "icon" \in Range(steps)) =>
         /\ family # <<>>
         /\ Synthesized
         /\ bundle_icon_file = Some(icns_dest_path)

\* A container of two slots was written.
C10_Witness ==
    /\ Synthesized
    /\ bundle_icon_file = Some(icns_dest_path)
    /\ Len(family) = 2
    /\ Len(images_to_resize) = 1

====
